---- MODULE Spec2Model ----
(***************************************************************************)
(* A model of the ECS maze runner: the maze builder and reader (maze.py,   *)
(* maze_runner.py), the runner primitives and the left-hug exploration     *)
(* (runner.py), and the path compaction and instruction synthesis         *)
(* (maze_runner.py).                                                       *)
(*                                                                         *)
(* Python values are kept as they are in the code: a maze is maze[x][y][d] *)
(* with 0-based x, y and d = int(Direction); a list is a sequence, so the  *)
(* Python index i is the TLA+ index i + 1; None is the empty tuple.        *)
(***************************************************************************)
EXTENDS Integers, Sequences, FiniteSets, TLC

\* Bounds of the model.
MaxWidth == 3
MaxHeight == 3
MaxWalls == 2
MaxPathLen == 4

\* Python's None: the empty tuple where a list or a tuple is expected, a string
\* where a Direction or an exception name is.
None == <<>>
NoDirection == "None"
NoException == "None"

(***************************************************************************)
(* direction.py, turn.py, wall.py                                          *)
(***************************************************************************)
NORTH == "N"
EAST == "E"
SOUTH == "S"
WEST == "W"
Direction == {NORTH, EAST, SOUTH, WEST}

LEFT == "Left"
RIGHT == "Right"

WallLEFT == 0
WallFORWARD == 1
WallRIGHT == 2

\* list.index(v): the 0-based position of the first v in the list.
ListIndex(list, v) ==
    CHOOSE i \in 0..(Len(list) - 1) :
        /\ list[i + 1] = v
        /\ \A j \in 0..(i - 1) : list[j + 1] # v

\* A turn_right through the list of turn_left.
turn_right_counterclockwise(d) ==
    LET order == <<NORTH, WEST, SOUTH, EAST>>
        index == ListIndex(order, d)
    IN  order[((index + 1) % 4) + 1]

turn_right(d) ==
    LET order == <<NORTH, EAST, SOUTH, WEST>>
        index == ListIndex(order, d)
    IN  order[((index + 1) % 4) + 1]

\* A turn_left that steps two places through its list.
turn_left_by_two(d) ==
    LET order == <<NORTH, WEST, SOUTH, EAST>>
        index == ListIndex(order, d)
    IN  order[((index + 2) % 4) + 1]

turn_left(d) ==
    LET order == <<NORTH, WEST, SOUTH, EAST>>
        index == ListIndex(order, d)
    IN  order[((index + 1) % 4) + 1]

\* Direction.__int__
DirInt(d) ==
    CASE d = NORTH -> 0
      [] d = EAST -> 1
      [] d = SOUTH -> 2
      [] d = WEST -> 3

(***************************************************************************)
(* maze.py                                                                 *)
(***************************************************************************)
\* get_dimensions: (len(maze), len(maze[0])); the maze is a list of columns.
get_dimensions(maze) ==
    <<Cardinality(DOMAIN maze), Cardinality(DOMAIN maze[0])>>

\* isinstance(maze, list) fails for None: get_dimensions raises TypeError.
IsMaze(maze) == DOMAIN maze # {}

\* A create_maze that leaves the north side of the maze open.
create_maze_open_to_the_north(width, height) ==
    [i \in 0..(width - 1) |->
        [j \in 0..(height - 1) |->
            [d \in 0..3 |->
                \/ (d = DirInt(WEST) /\ i = 0)
                \/ (d = DirInt(EAST) /\ i = width - 1)
                \/ (d = DirInt(SOUTH) /\ j = 0)]]]

create_maze(width, height) ==
    [i \in 0..(width - 1) |->
        [j \in 0..(height - 1) |->
            [d \in 0..3 |->
                \/ (d = DirInt(WEST) /\ i = 0)
                \/ (d = DirInt(EAST) /\ i = width - 1)
                \/ (d = DirInt(SOUTH) /\ j = 0)
                \/ (d = DirInt(NORTH) /\ j = height - 1)]]]

\* The exception add_horizontal_wall raises for its arguments, or None.
add_horizontal_wall_raises(maze, x_coordinate, horizontal_line) ==
    LET width == get_dimensions(maze)[1]
        height == get_dimensions(maze)[2]
    IN  IF x_coordinate < 0 \/ horizontal_line < 0 THEN "ValueError"
        ELSE IF x_coordinate >= width THEN "ValueError"
        ELSE IF horizontal_line = 0 \/ horizontal_line = height THEN "ValueError"
        ELSE IF horizontal_line > height THEN "IndexError"
        ELSE NoException

\* An add_horizontal_wall that sets the wall on the cell above the line only.
add_horizontal_wall_one_sided(maze, x_coordinate, horizontal_line) ==
    [maze EXCEPT ![x_coordinate][horizontal_line][DirInt(SOUTH)] = TRUE]

add_horizontal_wall(maze, x_coordinate, horizontal_line) ==
    [maze EXCEPT ![x_coordinate][horizontal_line][DirInt(SOUTH)] = TRUE,
                 ![x_coordinate][horizontal_line - 1][DirInt(NORTH)] = TRUE]

\* The body of add_vertical_wall is "pass": it returns None and changes nothing.
add_vertical_wall(maze, y_coordinate, vertical_line) == None

\* The exception get_walls raises for its arguments, or None.
get_walls_raises(maze, x_coordinate, y_coordinate) ==
    LET width == get_dimensions(maze)[1]
        height == get_dimensions(maze)[2]
    IN  IF x_coordinate < 0 \/ y_coordinate < 0 THEN "ValueError"
        ELSE IF x_coordinate >= width \/ y_coordinate >= height THEN "ValueError"
        ELSE NoException

get_walls(maze, x_coordinate, y_coordinate) ==
    LET cell == maze[x_coordinate][y_coordinate]
    IN  <<cell[0], cell[1], cell[2], cell[3]>>

(***************************************************************************)
(* runner.py                                                               *)
(***************************************************************************)
create_runner(x, y, orientation) ==
    [x |-> x, y |-> y, orientation |-> orientation]

\* A turn that turns right whatever the direction.
turn_always_right(runner, direction) ==
    [runner EXCEPT !.orientation = turn_right(runner.orientation)]

turn(runner, direction) ==
    IF direction = RIGHT
    THEN [runner EXCEPT !.orientation = turn_right(runner.orientation)]
    ELSE [runner EXCEPT !.orientation = turn_left(runner.orientation)]

\* A forward that moves two cells.
forward_two_cells(runner) ==
    CASE runner.orientation = NORTH -> [runner EXCEPT !.y = @ + 2]
      [] runner.orientation = EAST -> [runner EXCEPT !.x = @ + 2]
      [] runner.orientation = SOUTH -> [runner EXCEPT !.y = @ - 2]
      [] runner.orientation = WEST -> [runner EXCEPT !.x = @ - 2]

forward(runner) ==
    CASE runner.orientation = NORTH -> [runner EXCEPT !.y = @ + 1]
      [] runner.orientation = EAST -> [runner EXCEPT !.x = @ + 1]
      [] runner.orientation = SOUTH -> [runner EXCEPT !.y = @ - 1]
      [] runner.orientation = WEST -> [runner EXCEPT !.x = @ - 1]

\* A backward that moves North and South like forward.
backward_north_south_as_forward(runner) ==
    CASE runner.orientation = NORTH -> [runner EXCEPT !.y = @ + 1]
      [] runner.orientation = EAST -> [runner EXCEPT !.x = @ - 1]
      [] runner.orientation = SOUTH -> [runner EXCEPT !.y = @ - 1]
      [] runner.orientation = WEST -> [runner EXCEPT !.x = @ + 1]

backward(runner) ==
    CASE runner.orientation = NORTH -> [runner EXCEPT !.y = @ - 1]
      [] runner.orientation = EAST -> [runner EXCEPT !.x = @ - 1]
      [] runner.orientation = SOUTH -> [runner EXCEPT !.y = @ + 1]
      [] runner.orientation = WEST -> [runner EXCEPT !.x = @ + 1]

\* A sense_walls that returns (right, straight, left).
sense_walls_right_first(runner, maze) ==
    LET cell == get_walls(maze, runner.x, runner.y)
        orientation == runner.orientation
        left_direction == turn_left(orientation)
        right_direction == turn_right(orientation)
    IN  <<cell[DirInt(right_direction) + 1],
          cell[DirInt(orientation) + 1],
          cell[DirInt(left_direction) + 1]>>

\* (left, straight, right); a tuple t is indexed t[int(Wall.X) + 1].
sense_walls(runner, maze) ==
    LET cell == get_walls(maze, runner.x, runner.y)
        orientation == runner.orientation
        left_direction == turn_left(orientation)
        right_direction == turn_right(orientation)
    IN  <<cell[DirInt(left_direction) + 1],
          cell[DirInt(orientation) + 1],
          cell[DirInt(right_direction) + 1]>>

\* A go_straight that walks through walls.
go_straight_through_walls(runner, maze) == NoException

\* go_straight, line 248: the exception it raises for a runner inside the maze.
go_straight_raises(runner, maze) ==
    IF ~sense_walls(runner, maze)[WallFORWARD + 1]
    THEN NoException
    ELSE "ValueError"

go_straight(runner, maze) == forward(runner)

\* A move that tries forward before left.
move_forward_first(runner, maze) ==
    LET walls == sense_walls(runner, maze)
    IN  IF ~walls[WallFORWARD + 1]
        THEN <<forward(runner), "F">>
        ELSE IF ~walls[WallLEFT + 1]
        THEN <<forward(turn(runner, LEFT)), "LF">>
        ELSE IF ~walls[WallRIGHT + 1]
        THEN <<forward(turn(runner, RIGHT)), "RF">>
        ELSE <<backward(runner), "B">>

\* A move that goes left whatever the walls.
move_left_regardless(runner, maze) ==
    <<forward(turn(runner, LEFT)), "LF">>

\* (moved runner, sequence of actions)
move(runner, maze) ==
    LET walls == sense_walls(runner, maze)
    IN  IF ~walls[WallLEFT + 1]
        THEN <<forward(turn(runner, LEFT)), "LF">>
        ELSE IF ~walls[WallFORWARD + 1]
        THEN <<forward(runner), "F">>
        ELSE IF ~walls[WallRIGHT + 1]
        THEN <<forward(turn(runner, RIGHT)), "RF">>
        ELSE <<backward(runner), "B">>

\* An in_goal that takes either coordinate for the goal.
in_goal_either(runner, goal_x, goal_y) ==
    (runner.x = goal_x) \/ (runner.y = goal_y)

in_goal(runner, goal_x, goal_y) ==
    (runner.x = goal_x) /\ (runner.y = goal_y)

\* explore, lines 337-352: (goal_x, goal_y), for a maze that is a list.
explore_goal(maze, goal) ==
    LET width == get_dimensions(maze)[1]
        height == get_dimensions(maze)[2]
    IN  IF goal = None THEN <<width - 1, height - 1>> ELSE goal

\* An explore that refuses only the goals beyond the east and north sides.
explore_goal_raises_upper_only(maze, goal) ==
    LET width == get_dimensions(maze)[1]
        height == get_dimensions(maze)[2]
    IN  IF goal = None THEN NoException
        ELSE IF goal[1] >= width \/ goal[2] >= height
        THEN "ValueError"
        ELSE NoException

explore_goal_raises(maze, goal) ==
    LET width == get_dimensions(maze)[1]
        height == get_dimensions(maze)[2]
    IN  IF goal = None THEN NoException
        ELSE IF goal[1] >= width \/ goal[2] >= height \/ goal[1] < 0 \/ goal[2] < 0
        THEN "ValueError"
        ELSE NoException

(***************************************************************************)
(* maze_runner.py: the maze file reader.  A maze file is the list of its   *)
(* stripped lines, a line the list of its characters.                      *)
(***************************************************************************)
is_valid_maze_file(maze_file_lines) ==
    LET nlines == Len(maze_file_lines)
        length == Len(maze_file_lines[1])
    IN  /\ \A l \in 1..nlines : Len(maze_file_lines[l]) = length
        /\ nlines % 2 # 0
        /\ length % 2 # 0
        /\ \A c \in 1..length :
              maze_file_lines[1][c] = "#" /\ maze_file_lines[nlines][c] = "#"
        /\ \A l \in 2..(nlines - 1) :
              maze_file_lines[l][1] = "#" /\ maze_file_lines[l][length] = "#"
        /\ \A l \in 1..nlines : \A c \in 1..length :
              ((l - 1) % 2 = 0 /\ (c - 1) % 2 = 0) => maze_file_lines[l][c] = "#"
        /\ \A l \in 1..nlines : \A c \in 1..length :
              ((l - 1) % 2 = 1 /\ (c - 1) % 2 = 1) => maze_file_lines[l][c] = "."

get_maze_file_dimensions(maze_file_lines) ==
    <<(Len(maze_file_lines[1]) - 1) \div 2, (Len(maze_file_lines) - 1) \div 2>>

\* cells[cell_x][cell_y]: the (north, east, south, west) neighbouring characters.
get_maze_file_cells(maze_file_lines) ==
    LET maze_width == get_maze_file_dimensions(maze_file_lines)[1]
        maze_height == get_maze_file_dimensions(maze_file_lines)[2]
        nlines == Len(maze_file_lines)
    IN  [cell_x \in 0..(maze_width - 1) |->
            [cell_y \in 0..(maze_height - 1) |->
                LET char_index ==
                        CHOOSE c \in 0..(Len(maze_file_lines[1]) - 1) :
                            c % 2 = 1 /\ (c - 1) \div 2 = cell_x
                    line_index ==
                        CHOOSE l \in 0..(nlines - 1) :
                            l % 2 = 1 /\ (nlines - l - 2) \div 2 = cell_y
                IN  <<maze_file_lines[line_index - 1 + 1][char_index + 1],
                      maze_file_lines[line_index + 1][char_index + 1 + 1],
                      maze_file_lines[line_index + 1 + 1][char_index + 1],
                      maze_file_lines[line_index + 1][char_index - 1 + 1]>>]]

maze_file_cell_to_maze_cell(maze_file_cell) ==
    [d \in 0..3 |-> maze_file_cell[d + 1] = "#"]

\* maze_reader for a valid file: create_maze, then every cell overwritten.
maze_reader(maze_file_lines) ==
    LET maze_file_cells == get_maze_file_cells(maze_file_lines)
        maze_width == get_maze_file_dimensions(maze_file_lines)[1]
        maze_height == get_maze_file_dimensions(maze_file_lines)[2]
        maze == create_maze(maze_width, maze_height)
    IN  [i \in DOMAIN maze |->
            [j \in DOMAIN maze[i] |->
                maze_file_cell_to_maze_cell(maze_file_cells[i][j])]]

(***************************************************************************)
(* maze_runner.py: compaction and instruction synthesis.                   *)
(***************************************************************************)
\* The runner's start: the given position, or the named corner of the maze.
get_position_or_default(maze, position, corner) ==
    IF position # None THEN position
    ELSE <<IF WEST \in corner THEN 0 ELSE get_dimensions(maze)[1] - 1,
           IF SOUTH \in corner THEN 0 ELSE get_dimensions(maze)[2] - 1>>

\* A link_list that links every entry to the entry after the next one.
link_list_by_twos(list_to_link) ==
    [i \in 1..Len(list_to_link) |->
        <<list_to_link[i], IF i + 1 >= Len(list_to_link) THEN -1 ELSE i + 1>>]

\* A link_list that ends the list at the last entry but one as well.
link_list_ending_one_early(list_to_link) ==
    [i \in 1..Len(list_to_link) |->
        <<list_to_link[i], IF i + 1 >= Len(list_to_link) THEN -1 ELSE i>>]

\* A node is <<item, next index>>; the next index is a Python (0-based) index.
link_list(list_to_link) ==
    [i \in 1..Len(list_to_link) |->
        <<list_to_link[i], IF i = Len(list_to_link) THEN -1 ELSE i>>]

\* An iteration that links a position seen before to the entry after the next.
optimise_iteration_skipping_one_more(linked_path, seen_positions, index) ==
    LET node == linked_path[index + 1]
        pos == <<node[1][1], node[1][2]>>
        next_index == node[2]
    IN  IF next_index = -1 THEN <<linked_path, seen_positions>>
        ELSE IF pos \in DOMAIN seen_positions
        THEN <<[linked_path EXCEPT ![seen_positions[pos] + 1][2] =
                    IF next_index + 1 < Len(linked_path)
                    THEN next_index + 1 ELSE next_index],
               [seen_positions EXCEPT ![pos] = index]>>
        ELSE <<linked_path, (pos :> index) @@ seen_positions>>

\* One iteration of the first loop of _optimise_path, at Python index `index`:
\* <<linked_path, seen_positions>> after it.
optimise_iteration(linked_path, seen_positions, index) ==
    LET node == linked_path[index + 1]
        pos == <<node[1][1], node[1][2]>>
        next_index == node[2]
    IN  IF next_index = -1 THEN <<linked_path, seen_positions>>
        ELSE IF pos \in DOMAIN seen_positions
        THEN <<[linked_path EXCEPT ![seen_positions[pos] + 1][2] = next_index],
               [seen_positions EXCEPT ![pos] = index]>>
        ELSE <<linked_path, (pos :> index) @@ seen_positions>>

\* The links walked from next_index, in the order of the list from there on
\* reversed: the last position first.
RECURSIVE walk_links_backwards(_, _)
walk_links_backwards(linked_path, next_index) ==
    IF next_index = -1 THEN <<>>
    ELSE walk_links_backwards(linked_path, linked_path[next_index + 1][2])
         \o <<<<linked_path[next_index + 1][1][1],
                linked_path[next_index + 1][1][2], "">>>>

\* The second loop of _optimise_path: the walk along the links from next_index.
RECURSIVE walk_links(_, _)
walk_links(linked_path, next_index) ==
    IF next_index = -1 THEN <<>>
    ELSE <<<<linked_path[next_index + 1][1][1],
             linked_path[next_index + 1][1][2], "">>>>
         \o walk_links(linked_path, linked_path[next_index + 1][2])

\* _construct_sequences, lines 99-107; None (NoDirection) for a zero delta.
movement_direction_of(pos_x, pos_y, next_pos_x, next_pos_y) ==
    IF next_pos_x > pos_x THEN EAST
    ELSE IF next_pos_x < pos_x THEN WEST
    ELSE IF next_pos_y > pos_y THEN NORTH
    ELSE IF next_pos_y < pos_y THEN SOUTH
    ELSE NoDirection

\* A classification with the left and the right rotation exchanged.
sequence_of_left_right_swapped(movement_direction, prev_direction) ==
    IF movement_direction = prev_direction THEN "F"
    ELSE IF movement_direction = turn_right(prev_direction) THEN "LF"
    ELSE IF movement_direction = turn_left(prev_direction) THEN "RF"
    ELSE "B"

\* _construct_sequences, lines 109-116.  prev_direction is a Direction here:
\* with None, line 96 raises AttributeError.
sequence_of(movement_direction, prev_direction) ==
    IF movement_direction = prev_direction THEN "F"
    ELSE IF movement_direction = turn_left(prev_direction) THEN "LF"
    ELSE IF movement_direction = turn_right(prev_direction) THEN "RF"
    ELSE "B"

\* A loop that never updates prev_direction (line 118 left out).
RECURSIVE construct_from_stale_heading(_, _, _)
construct_from_stale_heading(optimised_path, index, prev_direction) ==
    IF index >= Len(optimised_path) - 1 THEN <<>>
    ELSE LET pos_x == optimised_path[index + 1][1]
             pos_y == optimised_path[index + 1][2]
             next_pos_x == optimised_path[index + 2][1]
             next_pos_y == optimised_path[index + 2][2]
             movement_direction ==
                 movement_direction_of(pos_x, pos_y, next_pos_x, next_pos_y)
         IN  <<<<pos_x, pos_y, sequence_of(movement_direction, prev_direction)>>>>
             \o construct_from_stale_heading(optimised_path, index + 1, prev_direction)

\* The loop of _construct_sequences from Python index `index` on.
RECURSIVE construct_from(_, _, _)
construct_from(optimised_path, index, prev_direction) ==
    IF index >= Len(optimised_path) - 1 THEN <<>>
    ELSE LET pos_x == optimised_path[index + 1][1]
             pos_y == optimised_path[index + 1][2]
             next_index == index + 1
             next_pos_x == optimised_path[next_index + 1][1]
             next_pos_y == optimised_path[next_index + 1][2]
             movement_direction ==
                 movement_direction_of(pos_x, pos_y, next_pos_x, next_pos_y)
         IN  <<<<pos_x, pos_y, sequence_of(movement_direction, prev_direction)>>>>
             \o construct_from(optimised_path, next_index, movement_direction)

\* A pair with a zero delta leaves prev_direction None; the next iteration
\* calls None.turn_left() and raises AttributeError.
construct_sequences_raises(optimised_path) ==
    IF \E i \in 1..(Len(optimised_path) - 2) :
           /\ optimised_path[i][1] = optimised_path[i + 1][1]
           /\ optimised_path[i][2] = optimised_path[i + 1][2]
    THEN "AttributeError"
    ELSE NoException

\* A _construct_sequences that returns optimised_path instead of
\* optimised_path[:-1].
construct_sequences_keeping_goal(optimised_path, starting_direction) ==
    construct_from(optimised_path, 0, starting_direction)
        \o (IF optimised_path = <<>> THEN <<>>
            ELSE <<optimised_path[Len(optimised_path)]>>)

_construct_sequences(optimised_path, starting_direction) ==
    construct_from(optimised_path, 0, starting_direction)

(***************************************************************************)
(* Inputs: maze files.  A wall slot is the <<line index, character index>> *)
(* (0-based) of the character between two neighbouring cells.              *)
(***************************************************************************)
WallSlots(width, height) ==
    {s \in (1..(2 * height - 1)) \X (1..(2 * width - 1)) : (s[1] + s[2]) % 2 = 1}

\* The slot below cell (x, line) and the slot left of cell (line, y).
HorizontalSlot(height, x, line) == <<2 * height - 2 * line, 2 * x + 1>>
VerticalSlot(height, y, line) == <<2 * height - 1 - 2 * y, 2 * line>>

\* The text of a valid maze file of a width x height maze: "#" on the border,
\* on the wall intersections and on the closed slots, "." elsewhere.
MazeFileText(width, height, closed) ==
    [l \in 1..(2 * height + 1) |->
        [c \in 1..(2 * width + 1) |->
            IF \/ l - 1 \in {0, 2 * height}
               \/ c - 1 \in {0, 2 * width}
               \/ ((l - 1) % 2 = 0 /\ (c - 1) % 2 = 0)
               \/ <<l - 1, c - 1>> \in closed
            THEN "#"
            ELSE "."]]

MazeFiles ==
    {MazeFileText(w, h, closed) :
        <<w, h, closed>> \in
            {t \in UNION {{<<w, h, c>> : c \in SUBSET WallSlots(w, h)} :
                             <<w, h>> \in (1..MaxWidth) \X (1..MaxHeight)} :
                Cardinality(t[3]) <= MaxWalls}}

\* The number of walls between neighbouring cells of a maze.
InternalWalls(m) ==
    LET width == get_dimensions(m)[1]
        height == get_dimensions(m)[2]
    IN  Cardinality({c \in (0..(width - 1)) \X (0..(height - 2)) :
                        m[c[1]][c[2]][DirInt(NORTH)]
                        \/ m[c[1]][c[2] + 1][DirInt(SOUTH)]})
        + Cardinality({c \in (0..(width - 2)) \X (0..(height - 1)) :
                        m[c[1]][c[2]][DirInt(EAST)]
                        \/ m[c[1] + 1][c[2]][DirInt(WEST)]})

(***************************************************************************)
(* The state.                                                              *)
(***************************************************************************)
VARIABLES
    pc,                 \* where the program is
    error,              \* the exception raised, NoException if none
    call,               \* the entry point running: "explore", "shortest_path", "direct"
    maze,               \* the caller's maze
    start,              \* the runner handed to explore
    goal,               \* explore's argument goal: a position or None
    goal_x,             \* explore's goal_x
    goal_y,             \* explore's goal_y
    runner,             \* explore's runner
    path,               \* runner_action_sequence of explore, path of shortest_path
    walls,              \* the walls of the last sense_walls(runner, maze)
    linked_path,        \* link_list's result, relinked by _optimise_path
    seen_positions,     \* _optimise_path's dictionary
    index,              \* the index of _optimise_path's first loop
    optimised_path,     \* _optimise_path's result
    starting_direction, \* the heading handed to _construct_sequences
    optimised_path_with_sequences  \* the Final Path

vars == <<pc, error, call, maze, start, goal, goal_x, goal_y, runner, path, walls,
          linked_path,
          seen_positions, index, optimised_path, starting_direction,
          optimised_path_with_sequences>>

runVars == <<call, start, goal, goal_x, goal_y, runner, path, walls>>
compactVars == <<linked_path, seen_positions, index, optimised_path,
                 starting_direction, optimised_path_with_sequences>>

NoSeen == [p \in {} |-> 0]

Blank ==
    /\ error = NoException
    /\ call = "none"
    /\ start = create_runner(0, 0, NORTH)
    /\ goal = None
    /\ goal_x = None
    /\ goal_y = None
    /\ runner = create_runner(0, 0, NORTH)
    /\ path = <<>>
    /\ walls = None
    /\ linked_path = <<>>
    /\ seen_positions = NoSeen
    /\ index = 0
    /\ optimised_path = <<>>
    /\ starting_direction = NoDirection
    /\ optimised_path_with_sequences = <<>>

Init ==
    /\ pc = "start"
    /\ maze = None
    /\ Blank

\* An exception leaves the call: nothing but the program position changes.
Raise(exception) ==
    /\ pc' = "error"
    /\ error' = exception
    /\ UNCHANGED <<maze, runVars, compactVars>>

(***************************************************************************)
(* Building the maze.                                                      *)
(***************************************************************************)
\* maze = create_maze(width, height)
CreateMaze(width, height) ==
    /\ pc = "start"
    /\ IF width <= 0 \/ height <= 0
       THEN Raise("ValueError")
       ELSE /\ maze' = create_maze(width, height)
            /\ pc' = "build"
            /\ UNCHANGED <<error, runVars, compactVars>>

\* maze = maze_reader(maze_file)
MazeReader(maze_file_lines) ==
    /\ pc = "start"
    /\ IF ~is_valid_maze_file(maze_file_lines)
       THEN Raise("ValueError")
       ELSE /\ maze' = maze_reader(maze_file_lines)
            /\ pc' = "build"
            /\ UNCHANGED <<error, runVars, compactVars>>

\* maze = add_horizontal_wall(maze, x_coordinate, horizontal_line)
AddHorizontalWall(x_coordinate, horizontal_line) ==
    /\ pc = "build"
    /\ IF ~IsMaze(maze)
       THEN Raise("TypeError")
       ELSE IF add_horizontal_wall_raises(maze, x_coordinate, horizontal_line)
                   # NoException
       THEN Raise(add_horizontal_wall_raises(maze, x_coordinate, horizontal_line))
       ELSE /\ maze' = add_horizontal_wall(maze, x_coordinate, horizontal_line)
            /\ UNCHANGED <<pc, error, runVars, compactVars>>

\* maze = add_vertical_wall(maze, y_coordinate, vertical_line)
AddVerticalWall(y_coordinate, vertical_line) ==
    /\ pc = "build"
    /\ maze' = add_vertical_wall(maze, y_coordinate, vertical_line)
    /\ UNCHANGED <<pc, error, runVars, compactVars>>

(***************************************************************************)
(* explore                                                                 *)
(***************************************************************************)
\* explore(r, maze, g) up to its loop, lines 337-355.
ExploreEntry(entry, r, g) ==
    IF ~IsMaze(maze)
    THEN Raise("TypeError")
    ELSE IF explore_goal_raises(maze, g) # NoException
    THEN /\ pc' = "error"
         /\ error' = explore_goal_raises(maze, g)
         /\ call' = entry
         /\ start' = r
         /\ runner' = r
         /\ goal' = g
         /\ UNCHANGED <<maze, goal_x, goal_y, path, walls, compactVars>>
    ELSE /\ pc' = "explore"
         /\ call' = entry
         /\ start' = r
         /\ runner' = r
         /\ goal' = g
         /\ goal_x' = explore_goal(maze, g)[1]
         /\ goal_y' = explore_goal(maze, g)[2]
         /\ path' = <<>>
         /\ UNCHANGED <<error, maze, walls, compactVars>>

\* path = explore(r, maze, g), called by the user
Explore(r, g) ==
    /\ pc = "build"
    /\ ExploreEntry("explore", r, g)

\* shortest_path(maze, starting, g), lines 183-187
ShortestPath(starting, g) ==
    /\ pc = "build"
    /\ IF ~IsMaze(maze)
       THEN Raise("TypeError")
       ELSE LET position ==
                    get_position_or_default(maze, starting, {WEST, SOUTH})
            IN  ExploreEntry("shortest_path",
                             create_runner(position[1], position[2], NORTH), g)

\* A step of explore that closes the side of the cell the runner faces.
ExploreStepClosingTheSideAhead ==
    /\ pc = "explore"
    /\ ~in_goal(runner, goal_x, goal_y)
    /\ get_walls_raises(maze, runner.x, runner.y) = NoException
    /\ runner' = move(runner, maze)[1]
    /\ path' = Append(path, <<move(runner, maze)[1].x, move(runner, maze)[1].y,
                              move(runner, maze)[2]>>)
    /\ walls' = sense_walls(runner, maze)
    /\ maze' = [maze EXCEPT ![runner.x][runner.y][DirInt(runner.orientation)] = TRUE]
    /\ UNCHANGED <<pc, error, call, start, goal, goal_x, goal_y, compactVars>>

\* A step of explore that backs out of a cell the run has been in before.
ExploreStepBackingOutOfVisitedCells ==
    /\ pc = "explore"
    /\ ~in_goal(runner, goal_x, goal_y)
    /\ get_walls_raises(maze, runner.x, runner.y) = NoException
    /\ LET visited == \E k \in 1..(Len(path) - 1) :
                           <<path[k][1], path[k][2]>> = <<runner.x, runner.y>>
           moved == IF visited
                    THEN <<backward(runner), "B">>
                    ELSE move(runner, maze)
       IN  /\ runner' = moved[1]
           /\ path' = Append(path, <<moved[1].x, moved[1].y, moved[2]>>)
           /\ walls' = sense_walls(runner, maze)
           /\ UNCHANGED <<pc, error, call, maze, start, goal, goal_x, goal_y,
                          compactVars>>

\* One iteration of explore's loop, lines 356-358.
ExploreStep ==
    /\ pc = "explore"
    /\ ~in_goal(runner, goal_x, goal_y)
    /\ IF get_walls_raises(maze, runner.x, runner.y) # NoException
       THEN Raise(get_walls_raises(maze, runner.x, runner.y))
       ELSE LET moved == move(runner, maze)
            IN  /\ runner' = moved[1]
                /\ path' = Append(path, <<moved[1].x, moved[1].y, moved[2]>>)
                /\ walls' = sense_walls(runner, maze)
                /\ UNCHANGED <<pc, error, call, maze, start, goal, goal_x, goal_y,
                               compactVars>>

\* The loop ends and explore returns runner_action_sequence, line 360.
ExploreReturn ==
    /\ pc = "explore"
    /\ in_goal(runner, goal_x, goal_y)
    /\ pc' = "link"
    /\ UNCHANGED <<error, maze, runVars, compactVars>>

(***************************************************************************)
(* Compaction and synthesis                                                *)
(***************************************************************************)
\* linked_path = link_list(path), and _optimise_path up to its first loop.
\* linked_list[-1] of an empty list raises IndexError.
LinkList ==
    /\ pc = "link"
    /\ IF path = <<>>
       THEN Raise("IndexError")
       ELSE /\ linked_path' = link_list(path)
            /\ seen_positions' = NoSeen
            /\ index' = 0
            /\ pc' = "optimise"
            /\ UNCHANGED <<error, maze, runVars, optimised_path,
                           starting_direction, optimised_path_with_sequences>>

\* One iteration of the first loop of _optimise_path, lines 45-57.
OptimiseStep ==
    /\ pc = "optimise"
    /\ index < Len(linked_path)
    /\ LET after == optimise_iteration(linked_path, seen_positions, index)
       IN  /\ linked_path' = after[1]
           /\ seen_positions' = after[2]
    /\ index' = index + 1
    /\ UNCHANGED <<pc, error, maze, runVars, optimised_path,
                   starting_direction, optimised_path_with_sequences>>

\* The second loop of _optimise_path and its return, lines 59-69.
OptimiseWalk ==
    /\ pc = "optimise"
    /\ index = Len(linked_path)
    /\ optimised_path' = walk_links(linked_path, 0)
    /\ pc' = "construct"
    /\ UNCHANGED <<error, maze, runVars, linked_path, seen_positions, index,
                   starting_direction, optimised_path_with_sequences>>

\* _construct_sequences(optimised_path, direction); shortest_path hands it
\* Direction.NORTH, line 192.
ConstructSequences(direction) ==
    /\ pc = "construct"
    /\ call = "shortest_path" => direction = NORTH
    /\ IF construct_sequences_raises(optimised_path) # NoException
       THEN Raise(construct_sequences_raises(optimised_path))
       ELSE /\ starting_direction' = direction
            /\ optimised_path_with_sequences' =
                   _construct_sequences(optimised_path, direction)
            /\ pc' = "done"
            /\ UNCHANGED <<error, maze, runVars, linked_path, seen_positions,
                           index, optimised_path>>

(***************************************************************************)
(* The runner states of a run.                                             *)
(***************************************************************************)
\* The runner after the first k steps of the trace, from the runner r0.
RECURSIVE RunnerAfter(_, _, _)
RunnerAfter(r0, trace, k) ==
    IF k = 0 THEN r0
    ELSE LET before == RunnerAfter(r0, trace, k - 1)
             label == trace[k][3]
         IN  [x |-> trace[k][1],
              y |-> trace[k][2],
              orientation |->
                  IF label = "LF" THEN turn_left(before.orientation)
                  ELSE IF label = "RF" THEN turn_right(before.orientation)
                  ELSE before.orientation]

\* The runner is in a state (position and orientation) it was in before: move
\* is a function of the runner and the maze, so the run repeats from here on.
Revisited ==
    \E k \in 0..(Len(path) - 1) : RunnerAfter(start, path, k) = runner

Cells(m) == (0..(get_dimensions(m)[1] - 1)) \X (0..(get_dimensions(m)[2] - 1))

Runners(m) ==
    {create_runner(c[1], c[2], d) : <<c, d>> \in Cells(m) \X Direction}

Goals(m) ==
    {None} \cup ((-1..get_dimensions(m)[1]) \X (-1..get_dimensions(m)[2]))

(***************************************************************************)
(* Every maze up to MaxWidth x MaxHeight with at most MaxWalls walls       *)
(* between its cells, every runner in it and every goal.  A run is         *)
(* followed until the runner is in a state it was in before.               *)
(***************************************************************************)
Next ==
    \/ /\ pc = "start"
       /\ \E width \in 0..MaxWidth, height \in 0..MaxHeight :
              CreateMaze(width, height)
    \/ /\ pc = "start"
       /\ \E maze_file_lines \in MazeFiles : MazeReader(maze_file_lines)
    \/ /\ pc = "build"
       /\ IsMaze(maze) => InternalWalls(maze) < MaxWalls
       /\ \E x_coordinate \in -1..MaxWidth, horizontal_line \in -1..(MaxHeight + 1) :
              AddHorizontalWall(x_coordinate, horizontal_line)
    \/ /\ pc = "build"
       /\ \E y_coordinate \in 0..(MaxHeight - 1), vertical_line \in 1..(MaxWidth - 1) :
              AddVerticalWall(y_coordinate, vertical_line)
    \/ /\ pc = "build"
       /\ IsMaze(maze)
       /\ \E r \in Runners(maze), g \in Goals(maze) : Explore(r, g)
    \/ /\ pc = "build"
       /\ \E starting \in {None} \cup (IF IsMaze(maze) THEN Cells(maze) ELSE {}),
             g \in (IF IsMaze(maze) THEN Goals(maze) ELSE {None}) :
              ShortestPath(starting, g)
    \/ /\ pc = "explore"
       /\ ~Revisited
       /\ ExploreStep
    \/ ExploreReturn
    \/ LinkList
    \/ OptimiseStep
    \/ OptimiseWalk
    \/ \E direction \in Direction : ConstructSequences(direction)

Spec == Init /\ [][Next]_vars

(***************************************************************************)
(* _construct_sequences alone: every walk of at most MaxPathLen            *)
(* grid-neighbouring positions in MaxWidth x MaxHeight, every heading.     *)
(***************************************************************************)
GridNeighbours(p, q) ==
    \/ (p[1] = q[1] /\ (p[2] = q[2] + 1 \/ q[2] = p[2] + 1))
    \/ (p[2] = q[2] /\ (p[1] = q[1] + 1 \/ q[1] = p[1] + 1))

RECURSIVE GridWalks(_)
GridWalks(n) ==
    IF n = 1
    THEN {<<<<c[1], c[2], "">>>> : c \in (0..(MaxWidth - 1)) \X (0..(MaxHeight - 1))}
    ELSE {Append(w, <<c[1], c[2], "">>) :
             <<w, c>> \in
                 {t \in GridWalks(n - 1) \X ((0..(MaxWidth - 1)) \X (0..(MaxHeight - 1))) :
                     GridNeighbours(t[1][n - 1], t[2])}}

InitSynth ==
    /\ pc = "construct"
    /\ maze = None
    /\ error = NoException
    /\ call = "direct"
    /\ start = create_runner(0, 0, NORTH)
    /\ goal = None
    /\ goal_x = None
    /\ goal_y = None
    /\ runner = create_runner(0, 0, NORTH)
    /\ path = <<>>
    /\ walls = None
    /\ linked_path = <<>>
    /\ seen_positions = NoSeen
    /\ index = 0
    /\ optimised_path \in UNION {GridWalks(n) : n \in 1..MaxPathLen}
    /\ starting_direction = NoDirection
    /\ optimised_path_with_sequences = <<>>

NextSynth == \E direction \in Direction : ConstructSequences(direction)

SpecSynth == InitSynth /\ [][NextSynth]_vars

(***************************************************************************)
(* The runs of the tests and of the spec's examples: test_shortest_path as *)
(* written, the same maze read from a maze file, and the 3x3 maze with no  *)
(* walls between its cells, from (0,0) to (2,0).  A run is followed for    *)
(* one step more than there are runner states in the maze.                 *)
(***************************************************************************)
TestMazeFile ==
    MazeFileText(11, 5, {HorizontalSlot(5, 0, 1), VerticalSlot(5, 1, 1)})

TestMaze == maze_reader(TestMazeFile)

RunnerStates(m) == 4 * Cardinality(Cells(m))

NextTests ==
    \/ /\ pc = "start"
       /\ \/ CreateMaze(11, 5)
          \/ CreateMaze(3, 3)
          \/ MazeReader(TestMazeFile)
    \/ /\ pc = "build"
       /\ maze = create_maze(11, 5)
       /\ AddHorizontalWall(0, 1)
    \/ /\ pc = "build"
       /\ maze = add_horizontal_wall(create_maze(11, 5), 0, 1)
       /\ AddVerticalWall(1, 1)
    \/ /\ pc = "build"
       /\ (~IsMaze(maze) \/ maze = TestMaze)
       /\ ShortestPath(None, None)
    \/ /\ pc = "build"
       /\ maze = create_maze(3, 3)
       /\ ShortestPath(<<0, 0>>, <<2, 0>>)
    \/ /\ pc = "explore"
       /\ Len(path) <= RunnerStates(maze)
       /\ ExploreStep
    \/ ExploreReturn
    \/ LinkList
    \/ OptimiseStep
    \/ OptimiseWalk
    \/ ConstructSequences(NORTH)

SpecTests == Init /\ [][NextTests]_vars

(***************************************************************************)
(* Compaction alone: link_list and _optimise_path on every trace of at     *)
(* most MaxPathLen entries with positions in MaxWidth x MaxHeight, whether *)
(* or not explore can produce it.                                          *)
(***************************************************************************)
Traces ==
    UNION {[1..n -> {<<c[1], c[2], "F">> :
                        c \in (0..(MaxWidth - 1)) \X (0..(MaxHeight - 1))}] :
              n \in 0..MaxPathLen}

InitCompact ==
    /\ pc = "link"
    /\ maze = None
    /\ error = NoException
    /\ call = "direct"
    /\ start = create_runner(0, 0, NORTH)
    /\ goal = None
    /\ goal_x = None
    /\ goal_y = None
    /\ runner = create_runner(0, 0, NORTH)
    /\ path \in Traces
    /\ walls = None
    /\ linked_path = <<>>
    /\ seen_positions = NoSeen
    /\ index = 0
    /\ optimised_path = <<>>
    /\ starting_direction = NoDirection
    /\ optimised_path_with_sequences = <<>>

NextCompact ==
    \/ LinkList
    \/ OptimiseStep
    \/ OptimiseWalk

SpecCompact == InitCompact /\ [][NextCompact]_vars

(***************************************************************************)
(* The functions of runner.py called one after another on a runner, as a   *)
(* caller may: every maze up to MaxWidth x MaxHeight with at most MaxWalls *)
(* walls between its cells, and every runner in or one cell around the     *)
(* MaxWidth x MaxHeight grid.  call is the last call made and start the    *)
(* runner it was made on.  forward and backward check no bounds: the runs  *)
(* are cut where the runner would leave that range.                        *)
(***************************************************************************)
Mazes == {maze_reader(maze_file_lines) : maze_file_lines \in MazeFiles}

RunnersAround ==
    {create_runner(x, y, orientation) :
        <<x, y, orientation>> \in (-1..MaxWidth) \X (-1..MaxHeight) \X Direction}

InitRunner ==
    /\ pc = "runner"
    /\ maze \in Mazes
    /\ error = NoException
    /\ call = "none"
    /\ runner \in RunnersAround
    /\ start = runner
    /\ goal = None
    /\ goal_x = None
    /\ goal_y = None
    /\ path = <<>>
    /\ walls = None
    /\ linked_path = <<>>
    /\ seen_positions = NoSeen
    /\ index = 0
    /\ optimised_path = <<>>
    /\ starting_direction = NoDirection
    /\ optimised_path_with_sequences = <<>>

\* The call `name` on the runner returns `returned`.
Returns(name, returned) ==
    /\ call' = name
    /\ start' = runner
    /\ runner' = returned
    /\ UNCHANGED <<pc, error, maze, goal, goal_x, goal_y, path, compactVars>>

\* The call `name` on the runner raises `exception`.
Raises(name, exception) ==
    /\ call' = name
    /\ start' = runner
    /\ pc' = "error"
    /\ error' = exception
    /\ UNCHANGED <<maze, runner, goal, goal_x, goal_y, path, compactVars>>

\* runner = turn(runner, turn_direction)
Turn(turn_direction) ==
    /\ pc = "runner"
    /\ Returns(IF turn_direction = RIGHT THEN "turn RIGHT" ELSE "turn LEFT",
               turn(runner, turn_direction))
    /\ walls' = None

\* runner = forward(runner)
Forward ==
    /\ pc = "runner"
    /\ forward(runner) \in RunnersAround
    /\ Returns("forward", forward(runner))
    /\ walls' = None

\* runner = backward(runner)
Backward ==
    /\ pc = "runner"
    /\ backward(runner) \in RunnersAround
    /\ Returns("backward", backward(runner))
    /\ walls' = None

\* walls = sense_walls(runner, maze)
SenseWalls ==
    /\ pc = "runner"
    /\ IF get_walls_raises(maze, runner.x, runner.y) # NoException
       THEN /\ Raises("sense_walls", get_walls_raises(maze, runner.x, runner.y))
            /\ walls' = None
       ELSE /\ Returns("sense_walls", runner)
            /\ walls' = sense_walls(runner, maze)

\* runner = go_straight(runner, maze)
GoStraight ==
    /\ pc = "runner"
    /\ IF get_walls_raises(maze, runner.x, runner.y) # NoException
       THEN /\ Raises("go_straight", get_walls_raises(maze, runner.x, runner.y))
            /\ walls' = None
       ELSE /\ walls' = sense_walls(runner, maze)
            /\ IF go_straight_raises(runner, maze) # NoException
               THEN Raises("go_straight", go_straight_raises(runner, maze))
               ELSE Returns("go_straight", go_straight(runner, maze))

NextRunner ==
    \/ \E turn_direction \in {LEFT, RIGHT} : Turn(turn_direction)
    \/ Forward
    \/ Backward
    \/ SenseWalls
    \/ GoStraight

SpecRunner == InitRunner /\ [][NextRunner]_vars

(***************************************************************************)
(* explore alone, followed past the first return of the runner to a state  *)
(* it was in: every maze file up to MaxWidth x MaxHeight with at most      *)
(* MaxWalls walls between its cells, every runner and every goal.  A run   *)
(* is followed until the runner is in a state for the third time, which is *)
(* one full period of the repetition.                                      *)
(***************************************************************************)
\* The runner states of the run so far: the start and the state after each step.
\* states[k + 1] is the runner after the first k steps.
RECURSIVE StatesOf(_, _)
StatesOf(r0, trace) ==
    IF trace = <<>> THEN <<r0>>
    ELSE LET states == StatesOf(r0, SubSeq(trace, 1, Len(trace) - 1))
             before == states[Len(states)]
             entry == trace[Len(trace)]
         IN  Append(states,
                    [x |-> entry[1],
                     y |-> entry[2],
                     orientation |->
                         IF entry[3] = "LF" THEN turn_left(before.orientation)
                         ELSE IF entry[3] = "RF" THEN turn_right(before.orientation)
                         ELSE before.orientation])

\* The runner is in a state it was in at least twice before.
RevisitedTwice ==
    LET states == StatesOf(start, path)
    IN  Cardinality({k \in 1..Len(path) : states[k] = runner}) >= 2

InitLoop == Init

NextLoop ==
    \/ /\ pc = "start"
       /\ \E maze_file_lines \in MazeFiles : MazeReader(maze_file_lines)
    \/ /\ pc = "build"
       /\ \E r \in Runners(maze), g \in Goals(maze) : Explore(r, g)
    \/ /\ pc = "explore"
       /\ ~RevisitedTwice
       /\ ExploreStep
    \/ ExploreReturn

SpecLoop == InitLoop /\ [][NextLoop]_vars

(***************************************************************************)
(* The vocabulary of the properties: the compass by table, positions.      *)
(***************************************************************************)
LeftOf(d) ==
    CASE d = NORTH -> WEST [] d = WEST -> SOUTH [] d = SOUTH -> EAST [] d = EAST -> NORTH

RightOf(d) ==
    CASE d = NORTH -> EAST [] d = EAST -> SOUTH [] d = SOUTH -> WEST [] d = WEST -> NORTH

ReverseOf(d) ==
    CASE d = NORTH -> SOUTH [] d = EAST -> WEST [] d = SOUTH -> NORTH [] d = WEST -> EAST

UnitVector(d) ==
    CASE d = NORTH -> <<0, 1>> [] d = EAST -> <<1, 0>>
      [] d = SOUTH -> <<0, -1>> [] d = WEST -> <<-1, 0>>

StepFrom(p, d) == <<p[1] + UnitVector(d)[1], p[2] + UnitVector(d)[2]>>

PositionOf(entry) == <<entry[1], entry[2]>>

NoRepeatedPosition(entries) ==
    \A i, j \in 1..Len(entries) :
        i < j => PositionOf(entries[i]) # PositionOf(entries[j])

Labels(entries) == {entries[i][3] : i \in 1..Len(entries)}

\* The direction in which q lies one step from p.
DirectionTo(p, q) == CHOOSE d \in Direction : StepFrom(p, d) = q

\* Boundary walls present, every wall the same on both of its sides.
WellFormed(m) ==
    LET width == get_dimensions(m)[1]
        height == get_dimensions(m)[2]
    IN  \A c \in Cells(m) :
            /\ c[1] = 0 => m[c[1]][c[2]][3]
            /\ c[1] = width - 1 => m[c[1]][c[2]][1]
            /\ c[2] = 0 => m[c[1]][c[2]][2]
            /\ c[2] = height - 1 => m[c[1]][c[2]][0]
            /\ c[1] < width - 1 => (m[c[1]][c[2]][1] <=> m[c[1] + 1][c[2]][3])
            /\ c[2] < height - 1 => (m[c[1]][c[2]][0] <=> m[c[1]][c[2] + 1][2])

\* The cells that can be reached from the cells of S through open cell sides.
RECURSIVE ReachableFrom(_, _)
ReachableFrom(m, S) ==
    LET T == S \cup {q \in Cells(m) :
                        \E c \in S, d \in Direction :
                            ~m[c[1]][c[2]][DirInt(d)] /\ StepFrom(c, d) = q}
    IN  IF T = S THEN S ELSE ReachableFrom(m, T)

ExploreReturned == pc \in {"link", "optimise", "construct", "done"}

Running == call \in {"explore", "shortest_path"}

(***************************************************************************)
(* C1.  For every maze, start and goal for which explore terminates, the   *)
(* Optimized Path that link_list and _optimise_path make of the raw trace, *)
(* and the Final Path of shortest_path, hold no position more than once.   *)
(***************************************************************************)
C1_OptimisedPathHasNoRepeatedPosition ==
    (Running /\ pc \in {"construct", "done"}) =>
        /\ NoRepeatedPosition(optimised_path)
        /\ pc = "done" => NoRepeatedPosition(optimised_path_with_sequences)

(***************************************************************************)
(* C2.  Executing the labels of the Final Path of shortest_path from the   *)
(* runner's start position and orientation (F: a step along the heading,   *)
(* LF: a step to its left, RF: a step to its right, B: a step opposite to  *)
(* it; the heading is then the direction of the step, as the synthesizer   *)
(* has it), the position before instruction i is element i's position,     *)
(* every step leaves the cell through a side with no wall, and the         *)
(* position after the last instruction is the goal.                        *)
(***************************************************************************)
LabelDirection(heading, label) ==
    CASE label = "F" -> heading
      [] label = "LF" -> LeftOf(heading)
      [] label = "RF" -> RightOf(heading)
      [] label = "B" -> ReverseOf(heading)

\* <<position, heading>> after the first k instructions of the instructions.
RECURSIVE Executed(_, _, _)
Executed(r0, instructions, k) ==
    IF k = 0 THEN <<<<r0.x, r0.y>>, r0.orientation>>
    ELSE LET before == Executed(r0, instructions, k - 1)
             d == LabelDirection(before[2], instructions[k][3])
         IN  <<StepFrom(before[1], d), d>>

C2_FinalPathLeadsFromStartToGoal ==
    (call = "shortest_path" /\ pc = "done") =>
        LET final == optimised_path_with_sequences
        IN  /\ \A i \in 1..Len(final) :
                   LET before == Executed(start, final, i - 1)
                       after == Executed(start, final, i)
                   IN  /\ before[1] = PositionOf(final[i])
                       /\ ~maze[before[1][1]][before[1][2]][DirInt(after[2])]
            /\ Executed(start, final, Len(final))[1] = <<goal_x, goal_y>>

(***************************************************************************)
(* C3.  In shortest_path with the start different from the goal, the       *)
(* Optimized Path begins at the runner's start position and ends at the    *)
(* goal, and the first element of the Final Path carries the start         *)
(* position.                                                               *)
(***************************************************************************)
C3_OptimisedPathBeginsAtStart ==
    (call = "shortest_path" /\ pc \in {"construct", "done"}
        /\ <<start.x, start.y>> # <<goal_x, goal_y>>) =>
        /\ PositionOf(optimised_path[1]) = <<start.x, start.y>>
        /\ PositionOf(optimised_path[Len(optimised_path)]) = <<goal_x, goal_y>>
        /\ pc = "done" =>
               /\ optimised_path_with_sequences # <<>>
               /\ PositionOf(optimised_path_with_sequences[1]) = <<start.x, start.y>>

(***************************************************************************)
(* C4.  explore terminates: in a well-formed maze, from every start cell   *)
(* and orientation, for every goal cell that can be reached from the start *)
(* through open cell sides, the runner comes to the goal.  The runner's    *)
(* next state is a function of its state and the maze, so a run that comes *)
(* back to a runner state before the goal never ends: a terminating run    *)
(* never does.                                                             *)
(***************************************************************************)
C4_ExploreTerminates ==
    (Running /\ pc = "explore" /\ WellFormed(maze)
        /\ <<goal_x, goal_y>> \in ReachableFrom(maze, {<<start.x, start.y>>})) =>
        (in_goal(runner, goal_x, goal_y) \/ ~Revisited)

(***************************************************************************)
(* C5.  Every step of explore takes the first open side in the order left, *)
(* forward, right: left open, it turns left, moves forward and emits "LF"; *)
(* else forward open, it moves forward and emits "F"; else right open, it  *)
(* turns right, moves forward and emits "RF"; else it moves backward with  *)
(* the orientation unchanged and emits "B".                                *)
(***************************************************************************)
C5_StepIs(d, facing, label) ==
    /\ runner' = [x |-> StepFrom(<<runner.x, runner.y>>, d)[1],
                  y |-> StepFrom(<<runner.x, runner.y>>, d)[2],
                  orientation |-> facing]
    /\ path' = Append(path, <<runner'.x, runner'.y, label>>)

C5_MoveTakesFirstOpenSide ==
    [][(pc = "explore" /\ pc' = "explore" /\ path' # path) =>
        LET cell == maze[runner.x][runner.y]
            o == runner.orientation
        IN  IF ~cell[DirInt(LeftOf(o))] THEN C5_StepIs(LeftOf(o), LeftOf(o), "LF")
            ELSE IF ~cell[DirInt(o)] THEN C5_StepIs(o, o, "F")
            ELSE IF ~cell[DirInt(RightOf(o))]
            THEN C5_StepIs(RightOf(o), RightOf(o), "RF")
            ELSE C5_StepIs(ReverseOf(o), o, "B")]_vars

\* A run in which all four branches were taken.
C5_Witness ==
    /\ pc = "explore"
    /\ call = "explore"
    /\ Labels(path) = {"LF", "F", "RF", "B"}

(***************************************************************************)
(* C6.  explore stops exactly at the first arrival at the goal, the        *)
(* supplied one or (width-1, height-1) when none is supplied: when it      *)
(* returns, the runner is at the goal, the last entry of the raw trace has *)
(* the goal position and no earlier entry has it.                          *)
(***************************************************************************)
C6_ExploreStopsAtFirstArrival ==
    (Running /\ ExploreReturned) =>
        LET target == IF goal = None
                      THEN <<get_dimensions(maze)[1] - 1, get_dimensions(maze)[2] - 1>>
                      ELSE goal
        IN  /\ <<runner.x, runner.y>> = target
            /\ path # <<>> => PositionOf(path[Len(path)]) = target
            /\ \A i \in 1..(Len(path) - 1) : PositionOf(path[i]) # target

\* explore has returned from a run of several steps to the default goal.
C6_Witness ==
    /\ pc = "link"
    /\ call = "explore"
    /\ goal = None
    /\ Len(path) >= 3

(***************************************************************************)
(* C7.  For the 11x5 maze of create_maze(11, 5) with the horizontal wall   *)
(* (x=0, line=1) and the vertical wall (y=1, line=1) added, shortest_path  *)
(* with the default start and goal terminates and returns a Final Path     *)
(* whose first element is (0,0,"RF"), whose last element is (9,4,"F") and  *)
(* in which no position is repeated.                                       *)
(***************************************************************************)
Test7Run ==
    /\ call = "shortest_path"
    /\ IsMaze(maze)
    /\ get_dimensions(maze) = <<11, 5>>

C7_ShortestPathFails == pc = "error" /\ ~IsMaze(maze)

C7_ShortestPathLoops ==
    Test7Run /\ pc = "explore" /\ ~in_goal(runner, goal_x, goal_y) /\ Revisited

C7_TestShortestPath ==
    /\ ~C7_ShortestPathFails
    /\ ~C7_ShortestPathLoops
    /\ (Test7Run /\ pc = "done") =>
           LET final == optimised_path_with_sequences
           IN  /\ final # <<>>
               /\ final[1] = <<0, 0, "RF">>
               /\ final[Len(final)] = <<9, 4, "F">>
               /\ NoRepeatedPosition(final)

(***************************************************************************)
(* C8.  For the 3x3 maze with no walls between its cells, start (0,0)      *)
(* facing North and goal (2,0), explore, compaction and synthesis yield a  *)
(* Final Path whose first element's label is "RF" and whose last           *)
(* element's label is "F".                                                 *)
(* As amended: ... whose first element's label is "F" and whose last       *)
(* element's label is "F".                                                 *)
(***************************************************************************)
Test8Run ==
    /\ call = "shortest_path"
    /\ maze = create_maze(3, 3)
    /\ start = create_runner(0, 0, NORTH)
    /\ goal = <<2, 0>>

C8_FirstLabelRF ==
    (Test8Run /\ pc = "done") =>
        LET final == optimised_path_with_sequences
        IN  /\ final # <<>>
            /\ final[1][3] = "RF"
            /\ final[Len(final)][3] = "F"

C8_FirstLabelF ==
    /\ (Test8Run /\ pc = "explore") =>
           (in_goal(runner, goal_x, goal_y) \/ ~Revisited)
    /\ (Test8Run /\ pc \notin {"explore", "link", "optimise", "construct"}) =>
           LET final == optimised_path_with_sequences
           IN  /\ pc = "done"
               /\ final # <<>>
               /\ final[1][3] = "F"
               /\ final[Len(final)][3] = "F"

C8_Witness ==
    /\ Test8Run
    /\ pc = "done"
    /\ Len(optimised_path_with_sequences) = 5

(***************************************************************************)
(* C9.  For every Optimized Path of grid-neighbouring positions and every  *)
(* initial heading, _construct_sequences labels element i by the direction *)
(* of the move from p_i to p_{i+1} against the running heading, which is   *)
(* the supplied heading at first and the direction of the previous move    *)
(* afterwards: "F" if they are equal, "LF" if the move is the heading's    *)
(* left rotation, "RF" if it is its right rotation, "B" if it is its       *)
(* reverse.                                                                *)
(***************************************************************************)
C9_LabelsFollowRunningHeading ==
    (call = "direct" /\ pc = "done") =>
        \A i \in 1..(Len(optimised_path) - 1) :
            LET movement == DirectionTo(PositionOf(optimised_path[i]),
                                        PositionOf(optimised_path[i + 1]))
                heading == IF i = 1 THEN starting_direction
                           ELSE DirectionTo(PositionOf(optimised_path[i - 1]),
                                            PositionOf(optimised_path[i]))
            IN  /\ i <= Len(optimised_path_with_sequences)
                /\ optimised_path_with_sequences[i][3] =
                       (CASE movement = heading -> "F"
                          [] movement = LeftOf(heading) -> "LF"
                          [] movement = RightOf(heading) -> "RF"
                          [] movement = ReverseOf(heading) -> "B")

\* A path that starts against the heading, then turns left, then right.
C9_Witness ==
    /\ call = "direct"
    /\ pc = "done"
    /\ Len(optimised_path_with_sequences) = 3
    /\ optimised_path_with_sequences[1][3] = "B"
    /\ optimised_path_with_sequences[2][3] = "LF"
    /\ optimised_path_with_sequences[3][3] = "RF"

(***************************************************************************)
(* C10.  The Final Path has exactly one element fewer than the Optimized   *)
(* Path, and its i-th element has the position of the Optimized Path's     *)
(* i-th element: only the final (goal) element is dropped.                 *)
(***************************************************************************)
C10_FinalPathDropsOnlyTheGoal ==
    pc = "done" =>
        /\ Len(optimised_path_with_sequences) = Len(optimised_path) - 1
        /\ \A i \in 1..Len(optimised_path_with_sequences) :
               PositionOf(optimised_path_with_sequences[i])
                   = PositionOf(optimised_path[i])

C10_Witness ==
    /\ call = "direct"
    /\ pc = "done"
    /\ Len(optimised_path) >= 3
    /\ Len(optimised_path_with_sequences) = Len(optimised_path) - 1

(***************************************************************************)
(* C11.  Compacting a trace in which no position occurs twice returns the  *)
(* positions of the trace unchanged: the same length, the same positions   *)
(* in the same order.                                                      *)
(***************************************************************************)
C11_LoopFreeTraceIsKept ==
    (call = "direct" /\ pc = "construct" /\ NoRepeatedPosition(path)) =>
        /\ Len(optimised_path) = Len(path)
        /\ \A i \in 1..Len(path) :
               PositionOf(optimised_path[i]) = PositionOf(path[i])

\* A loop-free trace of three entries or more has been compacted.
C11_Witness ==
    /\ call = "direct"
    /\ pc = "construct"
    /\ NoRepeatedPosition(path)
    /\ Len(path) >= 3
    /\ Len(optimised_path) >= 3

(***************************************************************************)
(* C12.  explore with a supplied goal outside [0,width) x [0,height)       *)
(* fails with ValueError before any step: the runner is where it started   *)
(* and the trace has no entry.                                             *)
(***************************************************************************)
C12_GoalOutsideIsRefused ==
    (Running /\ IsMaze(maze) /\ goal # None /\ goal \notin Cells(maze)) =>
        /\ pc = "error"
        /\ error = "ValueError"
        /\ runner = start
        /\ path = <<>>

\* explore has refused a goal beyond the east side and one beyond the south.
C12_Witness ==
    /\ pc = "error"
    /\ error = "ValueError"
    /\ call = "explore"
    /\ goal # None
    /\ goal[1] = get_dimensions(maze)[1]
    /\ goal[2] = -1
    /\ path = <<>>

(***************************************************************************)
(* C13.  go_straight on a runner in a cell of the maze returns the runner  *)
(* moved one cell forward, the orientation unchanged, if and only if the   *)
(* forward side of the cell has no wall; with a wall there it raises       *)
(* ValueError and the runner is not moved.                                 *)
(***************************************************************************)
C13_GoStraightOnlyThroughOpenSide ==
    (call = "go_straight" /\ <<start.x, start.y>> \in Cells(maze)) =>
        IF ~maze[start.x][start.y][DirInt(start.orientation)]
        THEN /\ pc = "runner"
             /\ error = NoException
             /\ <<runner.x, runner.y>> =
                    StepFrom(<<start.x, start.y>>, start.orientation)
             /\ runner.orientation = start.orientation
        ELSE /\ pc = "error"
             /\ error = "ValueError"
             /\ runner = start

\* go_straight has been refused at a wall between two cells of the maze.
C13_Witness ==
    /\ call = "go_straight"
    /\ pc = "error"
    /\ error = "ValueError"
    /\ StepFrom(<<start.x, start.y>>, start.orientation) \in Cells(maze)
    /\ <<start.x, start.y>> \in Cells(maze)

(***************************************************************************)
(* C14.  For a runner in a cell of the maze with orientation o,            *)
(* sense_walls returns the wall flags of that cell on the side             *)
(* turn_left(o), on the side o and on the side turn_right(o), in that      *)
(* order.                                                                  *)
(***************************************************************************)
C14_SenseWallsIsLeftForwardRight ==
    (call = "sense_walls" /\ pc = "runner") =>
        LET cell == maze[start.x][start.y]
            o == start.orientation
        IN  /\ <<start.x, start.y>> \in Cells(maze)
            /\ runner = start
            /\ walls = <<cell[DirInt(LeftOf(o))], cell[DirInt(o)],
                         cell[DirInt(RightOf(o))]>>

\* sense_walls has returned three different-looking sides: a wall on the
\* left only.
C14_Witness ==
    /\ call = "sense_walls"
    /\ pc = "runner"
    /\ walls = <<TRUE, FALSE, FALSE>>

(***************************************************************************)
(* C15.  turn(runner, LEFT) and turn(runner, RIGHT) change the orientation *)
(* only, to the one on the left and the one on the right of the current    *)
(* orientation; x and y are unchanged.                                     *)
(***************************************************************************)
C15_TurnChangesOrientationOnly ==
    /\ call = "turn LEFT" =>
           runner = [x |-> start.x, y |-> start.y,
                     orientation |-> LeftOf(start.orientation)]
    /\ call = "turn RIGHT" =>
           runner = [x |-> start.x, y |-> start.y,
                     orientation |-> RightOf(start.orientation)]

\* The runner of test_turn, (1, 2) facing South, turned right: it faces West.
C15_Witness ==
    /\ call = "turn RIGHT"
    /\ start = create_runner(1, 2, SOUTH)
    /\ runner = create_runner(1, 2, WEST)

(***************************************************************************)
(* C16.  forward moves the runner by the unit vector of its orientation    *)
(* (North y+1, East x+1, South y-1, West x-1), backward by the opposite    *)
(* vector; both keep the orientation and check no bounds; backward undoes  *)
(* forward and forward undoes backward.                                    *)
(***************************************************************************)
C16_ForwardAndBackwardAreInverse ==
    /\ call = "forward" =>
           /\ runner = [x |-> start.x + UnitVector(start.orientation)[1],
                        y |-> start.y + UnitVector(start.orientation)[2],
                        orientation |-> start.orientation]
           /\ backward(runner) = start
    /\ call = "backward" =>
           /\ runner = [x |-> start.x - UnitVector(start.orientation)[1],
                        y |-> start.y - UnitVector(start.orientation)[2],
                        orientation |-> start.orientation]
           /\ forward(runner) = start

\* test_forward's runner at (0, 0) facing South has moved forward to (0, -1),
\* out of every maze.
C16_Witness ==
    /\ call = "forward"
    /\ start = create_runner(0, 0, SOUTH)
    /\ runner = create_runner(0, -1, SOUTH)

(***************************************************************************)
(* C17.  explore and shortest_path never modify the maze: from the call to *)
(* its return or its exception, every step leaves every wall flag of every *)
(* cell as it was.                                                         *)
(***************************************************************************)
C17_MazeIsNotModified ==
    [][(pc \notin {"start", "build"} \/ (pc = "build" /\ pc' # "build")) =>
          maze' = maze]_vars

\* shortest_path has returned from a run of several steps in a maze with a
\* wall between two cells.
C17_Witness ==
    /\ pc = "done"
    /\ call = "shortest_path"
    /\ Len(path) >= 3
    /\ InternalWalls(maze) > 0

(***************************************************************************)
(* C18.  turn_left and turn_right undo each other: for every orientation   *)
(* o, o.turn_left().turn_right() = o and o.turn_right().turn_left() = o.   *)
(***************************************************************************)
C18_TurnLeftAndTurnRightAreInverse ==
    /\ call = "turn LEFT" => turn_right(runner.orientation) = start.orientation
    /\ call = "turn RIGHT" => turn_left(runner.orientation) = start.orientation

\* A runner facing North has been turned left: it faces West.
C18_Witness ==
    /\ call = "turn LEFT"
    /\ start.orientation = NORTH
    /\ runner.orientation = WEST

(***************************************************************************)
(* C19.  With North = 0, East = 1, South = 2, West = 3, turn_right takes   *)
(* the orientation of index i to the one of index (i + 1) mod 4 and        *)
(* turn_left to the one of index (i + 3) mod 4; so four turn_right in a    *)
(* row return the orientation they started from.                           *)
(***************************************************************************)
C19_TurnsStepThroughTheCompass ==
    /\ <<DirInt(NORTH), DirInt(EAST), DirInt(SOUTH), DirInt(WEST)>> = <<0, 1, 2, 3>>
    /\ call = "turn RIGHT" =>
           DirInt(runner.orientation) = (DirInt(start.orientation) + 1) % 4
    /\ call = "turn LEFT" =>
           DirInt(runner.orientation) = (DirInt(start.orientation) + 3) % 4
    /\ turn_right(turn_right(turn_right(turn_right(runner.orientation))))
           = runner.orientation

\* A runner facing West has been turned right: it faces North, index 3 to 0.
C19_Witness ==
    /\ call = "turn RIGHT"
    /\ start.orientation = WEST
    /\ runner.orientation = NORTH

(***************************************************************************)
(* C20.  In every maze built by create_maze and add_horizontal_wall (and   *)
(* in every maze read from a file) the walls are the same on both sides:   *)
(* cell (x, y) has a North wall iff cell (x, y+1) has a South wall, and an *)
(* East wall iff cell (x+1, y) has a West wall.  A successful              *)
(* add_horizontal_wall(maze, x, line) sets the South flag of (x, line) and *)
(* the North flag of (x, line-1) and changes no other flag.                *)
(***************************************************************************)
C20_SameOnBothSides(m) ==
    \A c \in Cells(m) :
        /\ c[2] + 1 < get_dimensions(m)[2] =>
               (m[c[1]][c[2]][0] <=> m[c[1]][c[2] + 1][2])
        /\ c[1] + 1 < get_dimensions(m)[1] =>
               (m[c[1]][c[2]][1] <=> m[c[1] + 1][c[2]][3])

C20_WallsAreSameOnBothSides ==
    /\ [](IsMaze(maze) => C20_SameOnBothSides(maze))
    /\ [][(pc = "build" /\ IsMaze(maze)) =>
            \A x \in -1..MaxWidth, line \in -1..(MaxHeight + 1) :
                (AddHorizontalWall(x, line) /\ pc' = "build") =>
                    /\ DOMAIN maze' = DOMAIN maze
                    /\ \A i \in DOMAIN maze :
                           /\ DOMAIN maze'[i] = DOMAIN maze[i]
                           /\ \A j \in DOMAIN maze[i] :
                                  maze'[i][j] =
                                      [d \in 0..3 |->
                                          \/ maze[i][j][d]
                                          \/ (i = x /\ j = line /\ d = 2)
                                          \/ (i = x /\ j = line - 1 /\ d = 0)]]_vars

\* Two add_horizontal_wall calls on create_maze(3, 3).
C20_Witness ==
    /\ pc = "build"
    /\ maze = add_horizontal_wall(add_horizontal_wall(create_maze(3, 3), 0, 1), 2, 2)
    /\ maze[0][1][2] /\ maze[0][0][0] /\ maze[2][2][2] /\ maze[2][1][0]
    /\ ~maze[1][1][2] /\ ~maze[1][0][0]

(***************************************************************************)
(* C21.  add_vertical_wall(maze, y, line) with 0 < line < width and        *)
(* 0 <= y < height returns the maze with the West flag of cell (line, y)   *)
(* and the East flag of cell (line - 1, y) set and every other flag        *)
(* unchanged.                                                              *)
(***************************************************************************)
C21_AddVerticalWallSetsBothSides ==
    [][(pc = "build" /\ IsMaze(maze)) =>
          \A y \in 0..(get_dimensions(maze)[2] - 1),
             line \in 1..(get_dimensions(maze)[1] - 1) :
              AddVerticalWall(y, line) =>
                  maze' = [maze EXCEPT ![line][y][3] = TRUE,
                                       ![line - 1][y][1] = TRUE]]_vars

(***************************************************************************)
(* C22.  add_horizontal_wall raises ValueError and leaves the maze         *)
(* unchanged whenever x_coordinate is outside [0, width) or                *)
(* horizontal_line is not strictly between 0 and height.                   *)
(***************************************************************************)
C22_AddHorizontalWallRaisesValueError ==
    [][(pc = "build" /\ IsMaze(maze)) =>
          \A x \in -1..MaxWidth, line \in -1..(MaxHeight + 1) :
              (/\ \/ x < 0
                  \/ x >= get_dimensions(maze)[1]
                  \/ line <= 0
                  \/ line >= get_dimensions(maze)[2]
               /\ AddHorizontalWall(x, line)) =>
                  /\ pc' = "error"
                  /\ error' = "ValueError"
                  /\ maze' = maze]_vars

(***************************************************************************)
(* C23.  For width >= 1 and height >= 1, create_maze(width, height)        *)
(* returns a grid of width columns of height cells in which cell (x, y)    *)
(* has a West wall iff x = 0, an East wall iff x = width - 1, a South wall *)
(* iff y = 0 and a North wall iff y = height - 1.                          *)
(***************************************************************************)
C23_CreateMazeHasBoundaryWallsOnly ==
    [][pc = "start" =>
          \A width \in 1..MaxWidth, height \in 1..MaxHeight :
              CreateMaze(width, height) =>
                  /\ pc' = "build"
                  /\ DOMAIN maze' = 0..(width - 1)
                  /\ \A x \in 0..(width - 1) :
                         /\ DOMAIN maze'[x] = 0..(height - 1)
                         /\ \A y \in 0..(height - 1) :
                                /\ DOMAIN maze'[x][y] = 0..3
                                /\ maze'[x][y][3] <=> (x = 0)
                                /\ maze'[x][y][1] <=> (x = width - 1)
                                /\ maze'[x][y][2] <=> (y = 0)
                                /\ maze'[x][y][0] <=> (y = height - 1)]_vars

\* create_maze(3, 3) has returned: the corner (0, 0) has its South and West
\* walls, the corner (2, 2) its North and East walls, the cell (1, 1) none.
C23_Witness ==
    /\ pc = "build"
    /\ get_dimensions(maze) = <<3, 3>>
    /\ InternalWalls(maze) = 0
    /\ get_walls(maze, 0, 0) = <<FALSE, FALSE, TRUE, TRUE>>
    /\ get_walls(maze, 2, 2) = <<TRUE, TRUE, FALSE, FALSE>>
    /\ get_walls(maze, 1, 1) = <<FALSE, FALSE, FALSE, FALSE>>

(***************************************************************************)
(* C24.  The Optimized Path is the loop-erased raw trace: it starts with   *)
(* the first entry, after an element with position p comes the entry that  *)
(* follows the last occurrence of p in the raw trace, and it ends with the *)
(* last entry, however many times a position is visited.                   *)
(***************************************************************************)
C24_LastOccurrence(trace, i) ==
    CHOOSE j \in i..Len(trace) :
        /\ PositionOf(trace[j]) = PositionOf(trace[i])
        /\ \A k \in (j + 1)..Len(trace) : PositionOf(trace[k]) # PositionOf(trace[i])

RECURSIVE C24_LoopErased(_, _)
C24_LoopErased(trace, i) ==
    IF C24_LastOccurrence(trace, i) = Len(trace)
    THEN <<PositionOf(trace[i])>>
    ELSE <<PositionOf(trace[i])>>
             \o C24_LoopErased(trace, C24_LastOccurrence(trace, i) + 1)

C24_OptimisedPathIsLoopErasedTrace ==
    (Running /\ pc \in {"construct", "done"}) =>
        [k \in 1..Len(optimised_path) |-> PositionOf(optimised_path[k])]
            = C24_LoopErased(path, 1)

(***************************************************************************)
(* C25.  For every raw trace of explore, every two consecutive positions   *)
(* of the Optimized Path differ by exactly 1 in exactly one coordinate:    *)
(* _construct_sequences never meets a zero, diagonal or longer delta.      *)
(***************************************************************************)
C25_OptimisedPathStepsAreUnitSteps ==
    (Running /\ pc \in {"construct", "done"}) =>
        /\ \A k \in 1..(Len(optimised_path) - 1) :
               \E d \in Direction :
                   StepFrom(PositionOf(optimised_path[k]), d)
                       = PositionOf(optimised_path[k + 1])
        /\ construct_sequences_raises(optimised_path) = NoException

\* The Optimized Path of a run is shorter than its raw trace: links were
\* changed, and the path has three positions or more.
C25_Witness ==
    /\ Running
    /\ pc = "construct"
    /\ Len(optimised_path) >= 3
    /\ Len(optimised_path) < Len(path)

(***************************************************************************)
(* C26.  The Optimized Path is a subsequence of the positions of the raw   *)
(* trace: its elements are the positions of trace entries at strictly      *)
(* increasing indices.                                                     *)
(***************************************************************************)
RECURSIVE C26_IsSubsequence(_, _, _, _)
C26_IsSubsequence(sub, k, seq, i) ==
    IF k > Len(sub) THEN TRUE
    ELSE IF i > Len(seq) THEN FALSE
    ELSE IF PositionOf(sub[k]) = PositionOf(seq[i])
    THEN C26_IsSubsequence(sub, k + 1, seq, i + 1)
    ELSE C26_IsSubsequence(sub, k, seq, i + 1)

C26_OptimisedPathIsSubsequenceOfTrace ==
    (Running /\ pc \in {"construct", "done"}) =>
        C26_IsSubsequence(optimised_path, 1, path, 1)

\* A run whose Optimized Path left out entries from the middle of the trace.
C26_Witness ==
    /\ Running
    /\ pc = "done"
    /\ Len(optimised_path) >= 2
    /\ Len(optimised_path) + 2 <= Len(path)

(***************************************************************************)
(* C27.  Throughout compaction the next-index of an entry is -1 for the    *)
(* last entry and for no other, and otherwise greater than the entry's own *)
(* index; so the walk from index 0 ends after at most as many steps as     *)
(* there are entries, its first element is the first entry of the trace    *)
(* and its last element the last entry.                                    *)
(***************************************************************************)
C27_LinksPointForward ==
    (Running /\ pc \in {"optimise", "construct", "done"}) =>
        /\ Len(linked_path) = Len(path)
        /\ \A i \in 1..Len(linked_path) :
               /\ linked_path[i][1] = path[i]
               /\ (linked_path[i][2] = -1) <=> (i = Len(linked_path))
               /\ linked_path[i][2] # -1 =>
                      (linked_path[i][2] > i - 1 /\ linked_path[i][2] < Len(linked_path))
        /\ pc \in {"construct", "done"} =>
               /\ Len(optimised_path) >= 1
               /\ Len(optimised_path) <= Len(path)
               /\ PositionOf(optimised_path[1]) = PositionOf(path[1])
               /\ PositionOf(optimised_path[Len(optimised_path)])
                      = PositionOf(path[Len(path)])

\* The first loop of _optimise_path has ended with a link changed, in a trace
\* of five entries or more.
C27_Witness ==
    /\ Running
    /\ pc = "optimise"
    /\ index = Len(linked_path)
    /\ Len(linked_path) >= 5
    /\ \E i \in 1..Len(linked_path) : linked_path[i][2] > i

(***************************************************************************)
(* C28.  The raw trace gets exactly one entry per step of explore; the     *)
(* position of the entry is one unit step from the position of the entry   *)
(* before it (from the start position for the first entry), in the         *)
(* direction that the entry's label gives from the runner's orientation    *)
(* before the step.                                                        *)
(***************************************************************************)
C28_OneEntryPerUnitStep ==
    [][(pc = "explore" /\ (runner' # runner \/ path' # path)) =>
          /\ IF path = <<>>
             THEN runner = start
             ELSE PositionOf(path[Len(path)]) = <<runner.x, runner.y>>
          /\ Len(path') = Len(path) + 1
          /\ SubSeq(path', 1, Len(path)) = path
          /\ LET entry == path'[Len(path')]
             IN  /\ entry[3] \in {"LF", "F", "RF", "B"}
                 /\ PositionOf(entry) =
                        StepFrom(<<runner.x, runner.y>>,
                                 LabelDirection(runner.orientation, entry[3]))
                 /\ <<runner'.x, runner'.y>> = PositionOf(entry)]_vars

\* explore has returned to shortest_path from a run with a "B" step and a
\* turn to each side.
C28_Witness ==
    /\ call = "shortest_path"
    /\ pc = "link"
    /\ {"B", "LF", "RF"} \subseteq Labels(path)

(***************************************************************************)
(* C29.  explore never fails with go_straight's blocked-by-wall error: it  *)
(* does not call go_straight, and in every "LF", "F" and "RF" step the     *)
(* side of the cell that the runner moves through was sensed open in that  *)
(* step.  (The only ValueError of a step is get_walls' for a runner        *)
(* outside the maze.)                                                      *)
(***************************************************************************)
C29_StepsGoThroughSidesSensedOpen ==
    /\ []((/\ Running
            /\ pc = "error"
            /\ error = "ValueError"
            /\ (goal = None \/ goal \in Cells(maze))) =>
               <<runner.x, runner.y>> \notin Cells(maze))
    /\ [][(pc = "explore" /\ path' # path) =>
             LET label == path'[Len(path')][3]
                 cell == maze[runner.x][runner.y]
                 o == runner.orientation
             IN  /\ walls' = <<cell[DirInt(LeftOf(o))], cell[DirInt(o)],
                               cell[DirInt(RightOf(o))]>>
                 /\ label = "LF" => ~walls'[1]
                 /\ label = "F" => ~walls'[2]
                 /\ label = "RF" => ~walls'[3]
                 /\ label # "B" => ~cell[DirInt(LabelDirection(o, label))]]_vars

\* A step to the right, with walls sensed on the left and ahead.
C29_Witness ==
    /\ pc = "explore"
    /\ path # <<>>
    /\ path[Len(path)][3] = "RF"
    /\ walls = <<TRUE, TRUE, FALSE>>

(***************************************************************************)
(* C30.  In a well-formed maze (boundary walls present, walls the same on  *)
(* both sides), from every start cell of the maze with any orientation,    *)
(* every position of the raw trace is a cell of the maze and no step, a    *)
(* "B" step included, takes the runner through a wall; so sense_walls      *)
(* never fails with get_walls' out-of-bounds ValueError during explore.    *)
(***************************************************************************)
C30_PreviousPosition(k) ==
    IF k = 1 THEN <<start.x, start.y>> ELSE PositionOf(path[k - 1])

C30_RunStaysInsideTheMaze ==
    (/\ Running
     /\ IsMaze(maze)
     /\ WellFormed(maze)
     /\ (goal = None \/ goal \in Cells(maze))) =>
        /\ \A k \in 1..Len(path) :
               /\ PositionOf(path[k]) \in Cells(maze)
               /\ ~maze[C30_PreviousPosition(k)[1]][C30_PreviousPosition(k)[2]]
                       [DirInt(DirectionTo(C30_PreviousPosition(k), PositionOf(path[k])))]
        /\ ~(pc = "error" /\ error = "ValueError")

(***************************************************************************)
(* C33.  With the start position equal to the goal, explore takes no step  *)
(* and returns an empty raw trace with the runner unmoved, and             *)
(* shortest_path ends without an exception and returns an empty Final      *)
(* Path.                                                                   *)
(***************************************************************************)
C33_StartAtGoalGivesEmptyPaths ==
    (/\ Running
     /\ IsMaze(maze)
     /\ (goal = None \/ goal \in Cells(maze))
     /\ <<start.x, start.y>> = explore_goal(maze, goal)) =>
        /\ path = <<>>
        /\ runner = start
        /\ call = "shortest_path" =>
               /\ pc # "error"
               /\ error = NoException
               /\ pc = "done" => optimised_path_with_sequences = <<>>

(***************************************************************************)
(* C32.  In a maze whose walls are the same on both sides the raw trace    *)
(* never has two "B" labels in a row: after a "B" step the side ahead of   *)
(* the runner is open, so the next step is "LF" or "F".                    *)
(***************************************************************************)
C32_NoTwoBackwardStepsInARow ==
    (Running /\ IsMaze(maze) /\ C20_SameOnBothSides(maze)) =>
        /\ \A k \in 1..(Len(path) - 1) :
               path[k][3] = "B" => path[k + 1][3] \in {"LF", "F"}
        /\ (path # <<>> /\ path[Len(path)][3] = "B") =>
               /\ <<runner.x, runner.y>> \in Cells(maze)
               /\ ~maze[runner.x][runner.y][DirInt(runner.orientation)]

\* The run has been in one runner state at two of its points.
C31_Recurred ==
    LET states == StatesOf(start, path)
    IN  \E i \in 1..Len(states), j \in 1..Len(states) :
            i < j /\ states[i] = states[j]

(***************************************************************************)
(* C31.  explore is deterministic in the runner state: the step taken from *)
(* a state (x, y, orientation) is the same every time the run is in that   *)
(* state.  Hence a run that has ended has been in no state twice, so no    *)
(* cell is in its raw trace more than four times; and once the run is in a *)
(* state again it is still in explore's loop, outside the goal, through    *)
(* the whole period of the repetition: explore does not terminate.         *)
(***************************************************************************)
C31_ExploreIsDeterministicInTheRunnerState ==
    call = "explore" =>
        LET states == StatesOf(start, path)
        IN  /\ \A i \in 1..Len(path), j \in 1..Len(path) :
                   states[i] = states[j] =>
                       /\ path[i] = path[j]
                       /\ states[i + 1] = states[j + 1]
            /\ pc # "explore" =>
                   /\ ~C31_Recurred
                   /\ \A k \in 1..Len(path) :
                          Cardinality({l \in 1..Len(path) :
                                          <<path[l][1], path[l][2]>>
                                              = <<path[k][1], path[k][2]>>}) <= 4
            /\ C31_Recurred =>
                   /\ pc = "explore"
                   /\ ~in_goal(runner, goal_x, goal_y)

\* A run followed through a whole period after its first repeated state.
C31_Witness ==
    /\ call = "explore"
    /\ pc = "explore"
    /\ RevisitedTwice
    /\ Len(path) >= 8

====
